---- MODULE Spec2Model ----
(***************************************************************************)
(* AuraMD: the dual-provider diagnosis analysis (backend ai_service), the  *)
(* SymptomAnalyzer component with its confidence helpers, and the          *)
(* AuthContext with the pages that render from it.                         *)
(*                                                                         *)
(* Confidence scores are fixed-point: Unit stands for 1.0, so 0.87 is 87   *)
(* and 1.5 is 150.                                                         *)
(***************************************************************************)
EXTENDS Integers, Sequences, FiniteSets, TLC

VARIABLES
    \* ---- backend: one diagnosis request through ai_service ----
    apc,            \* position of the request: idle / await_gpt4 / await_claude / done
    variant,        \* which analysis entry point serves the request
    inflight,       \* outbound provider calls issued and not yet completed
    gpt4Calls,      \* calls issued to provider A for the current request
    claudeCalls,    \* calls issued to provider B for the current request
    gpt4_result,    \* what the await of provider A produced
    claude_result,  \* what the await of provider B produced
    gpt4_response,  \* kind of the raw reply of provider A: none / failed / unparseable / json
    claude_response,\* kind of the raw reply of provider B
    combineRan,     \* _combine_ai_analyses ran for the current request
    result,         \* the value the analysis returned
    returnedVia,    \* which return statement produced it: none / combined / fallback
    \* ---- frontend: SymptomAnalyzer ----
    isAnalyzing,
    analysisResult,
    simulations,    \* analyses run by the current onSubmit invocation
    shown,          \* last score classified for display, with its colour and level
    session,        \* a DiagnosisSession value held by the client
    \* ---- frontend: AuthContext, router, pages ----
    user,
    loading,
    access_token,
    refresh_token,
    route,
    initPc,
    loginPc,
    refreshPc,
    thrown,         \* the operation whose last completion rethrew an error, or "none"
    lastOp,         \* the AuthContext step that ran last
    pushed,         \* the path that step pushed on the router, or "none"
    loginSnapshot,  \* the stored tokens as login found them when it was last called
    mounted,        \* HomePage's mounted flag
    dashboardView,  \* what DashboardPage rendered from (loading, user)
    homeView,       \* what HomePage rendered from (mounted, loading, user)
    \* ---- backend: ClinicalDataValidator ----
    icd_code,       \* the ICD-10 code handed to validation, a sequence of characters
    code_errors     \* the errors validation reported for it, or None before it ran

analysisVars == <<apc, variant, inflight, gpt4Calls, claudeCalls, gpt4_result,
                  claude_result, gpt4_response, claude_response, combineRan, result,
                  returnedVia>>
uiVars == <<isAnalyzing, analysisResult, simulations, shown, session>>
authVars == <<user, loading, access_token, refresh_token, route, initPc, loginPc,
              refreshPc, thrown, lastOp, pushed, loginSnapshot, mounted, dashboardView,
              homeView>>
codeVars == <<icd_code, code_errors>>
vars == <<analysisVars, uiVars, authVars, codeVars>>

\* ---------------------------------------------------------------- bounds
\* Provider confidence scores are drawn from the grid 0, Unit/ScoreLevels, ..., Unit.
ScoreLevels == 2
\* Largest score handed to the display helpers and the validator (1.5).
MaxScore == 150
\* Longest enumerated ICD-10 code candidate, in characters.
MaxCodeLen == 9

\* ------------------------------------------------------------- constants
\* 1.0, the upper end of the confidence range.
Unit == 100

\* None / null / undefined state values.
None == [kind |-> "none"]

\* =====================================================================
\* Backend: ai_service, dual-provider analysis
\* =====================================================================

\* Condition names a provider may list (the documented response of
\* POST /diagnosis/analyze), in a fixed order used to break ties.
ConditionList == <<"Acute Myocardial Infarction", "Unstable Angina", "Pulmonary Embolism">>

Conditions == {ConditionList[i] : i \in 1..Len(ConditionList)}

ProviderScores == {(k * Unit) \div ScoreLevels : k \in 0..ScoreLevels}

\* A raw provider reply: the call failed, the text was no JSON, or it was JSON
\* listing some (possibly no) conditions with a confidence score each.
ProviderResponses ==
    {[kind |-> "failed"], [kind |-> "unparseable"]}
    \cup {[kind |-> "json", scores |-> f] :
            f \in UNION {[S -> ProviderScores] : S \in SUBSET Conditions}}

\* _get_gpt4_analysis / _get_claude_analysis: the parsed analysis, or None when the
\* call failed or its output did not parse.
get_gpt4_analysis(resp) ==
    IF resp.kind = "json" THEN [kind |-> "analysis", scores |-> resp.scores] ELSE None

get_claude_analysis(resp) ==
    IF resp.kind = "json" THEN [kind |-> "analysis", scores |-> resp.scores] ELSE None

\* Confidence validation: 0.0 <= score <= 1.0.
validate_confidence_score(score) == 0 <= score /\ score <= Unit

Position(name) == CHOOSE i \in 1..Len(ConditionList) : ConditionList[i] = name

\* Union of the two providers' diagnoses; a condition both list gets the average.
\* (a + b) / 2 is exact on the score grid for ScoreLevels = 2 and rounds down by
\* half a hundredth where the sum is odd.
MergedScores(gs, cs) ==
    [n \in (DOMAIN gs) \cup (DOMAIN cs) |->
        IF n \in DOMAIN gs /\ n \in DOMAIN cs THEN (gs[n] + cs[n]) \div 2
        ELSE IF n \in DOMAIN gs THEN gs[n]
        ELSE cs[n]]

\* a sorts before b: higher score first, ties in list order (a stable sort).
SortsBefore(f, a, b) ==
    f[a] > f[b] \/ (f[a] = f[b] /\ Position(a) < Position(b))

\* The diagnoses of f sorted by score descending, each with its 1-based rank.
RankDiagnoses(f) ==
    [i \in 1..Cardinality(DOMAIN f) |->
        LET n == CHOOSE m \in DOMAIN f :
                    Cardinality({x \in DOMAIN f : SortsBefore(f, x, m)}) = i - 1
        IN  [condition_name |-> n, confidence_score |-> f[n], differential_rank |-> i]]

\* _combine_ai_analyses: None unless both analyses are present.
combine_ai_analyses(g, c) ==
    IF g = None \/ c = None THEN None
    ELSE [kind |-> "analysis",
          differential_diagnoses |-> RankDiagnoses(MergedScores(g.scores, c.scores))]

\* _get_fallback_analysis: the static payload.
get_fallback_analysis ==
    [kind |-> "analysis",
     differential_diagnoses |->
        << [condition_name |-> "Unable to determine",
            confidence_score |-> 0,
            differential_rank |-> 1] >>]

\* MedicalAIPrompts.validate_ai_response: the list of validation errors.
validate_ai_response(r) ==
    IF r = None THEN {"no analysis"}
    ELSE (IF Len(r.differential_diagnoses) = 0 THEN {"no differential diagnoses"} ELSE {})
         \cup (IF \E i \in 1..Len(r.differential_diagnoses) :
                    ~validate_confidence_score(r.differential_diagnoses[i].confidence_score)
               THEN {"confidence score out of range"} ELSE {})

\* analyze_symptoms without the check for an empty list of diagnoses.
analyze_symptoms_unchecked(g, c) ==
    LET combined == combine_ai_analyses(g, c)
    IN  IF combined = None
        THEN [via |-> "fallback", value |-> get_fallback_analysis]
        ELSE [via |-> "combined", value |-> combined]

\* analyze_symptoms handing back whatever the combination produced, None included.
analyze_symptoms_no_fallback(g, c) ==
    [via |-> "combined", value |-> combine_ai_analyses(g, c)]

\* analyze_symptoms, after both awaits: combine, then the safety check.
analyze_symptoms(g, c) ==
    LET combined == combine_ai_analyses(g, c)
    IN  IF combined = None \/ Len(combined.differential_diagnoses) = 0
        THEN [via |-> "fallback", value |-> get_fallback_analysis]
        ELSE [via |-> "combined", value |-> combined]

\* new_ai_analysis, after both awaits: combine, validate, fall back on errors.
new_ai_analysis(g, c) ==
    LET res == combine_ai_analyses(g, c)
        validation_errors == validate_ai_response(res)
    IN  IF validation_errors # {}
        THEN [via |-> "fallback", value |-> get_fallback_analysis]
        ELSE [via |-> "combined", value |-> res]

Variants == {"analyze_symptoms", "new_ai_analysis"}

Analyze(v, g, c) ==
    IF v = "analyze_symptoms" THEN analyze_symptoms(g, c) ELSE new_ai_analysis(g, c)

\* The request calls provider A again when its await produced nothing.
NextAfterGpt4_retry(r) == IF r = None THEN "await_gpt4" ELSE "await_claude"

\* Where the request goes once the await of provider A has produced r: the next
\* statement is the call to provider B, whatever r is.
NextAfterGpt4(r) == "await_claude"

InitAnalysis ==
    /\ apc = "idle"
    /\ variant = "analyze_symptoms"
    /\ inflight = {}
    /\ gpt4Calls = 0
    /\ claudeCalls = 0
    /\ gpt4_result = None
    /\ claude_result = None
    /\ gpt4_response = "none"
    /\ claude_response = "none"
    /\ combineRan = FALSE
    /\ result = None
    /\ returnedVia = "none"

\* A diagnosis request arrives: the prompt is built and provider A is called and
\* awaited. Provider B has not been called yet.
StartRequest(v) ==
    /\ apc \in {"idle", "done"}
    /\ variant' = v
    /\ apc' = "await_gpt4"
    /\ inflight' = {"gpt4"}
    /\ gpt4Calls' = 1
    /\ claudeCalls' = 0
    /\ gpt4_result' = None
    /\ claude_result' = None
    /\ gpt4_response' = "none"
    /\ claude_response' = "none"
    /\ combineRan' = FALSE
    /\ result' = None
    /\ returnedVia' = "none"
    /\ UNCHANGED <<uiVars, authVars, codeVars>>

\* The await of provider A completes; the request moves on to its next call.
Gpt4Returns(resp) ==
    /\ apc = "await_gpt4"
    /\ LET r == get_gpt4_analysis(resp)
           next == NextAfterGpt4(r)
       IN  /\ gpt4_result' = r
           /\ gpt4_response' = resp.kind
           /\ apc' = next
           /\ IF next = "await_gpt4"
              THEN /\ inflight' = {"gpt4"}
                   /\ gpt4Calls' = gpt4Calls + 1
                   /\ claudeCalls' = claudeCalls
              ELSE /\ inflight' = {"claude"}
                   /\ gpt4Calls' = gpt4Calls
                   /\ claudeCalls' = claudeCalls + 1
    /\ UNCHANGED <<variant, claude_result, claude_response, combineRan, result, returnedVia>>
    /\ UNCHANGED <<uiVars, authVars, codeVars>>

\* The await of provider B completes; combine, check and return run to the end.
ClaudeReturns(resp) ==
    /\ apc = "await_claude"
    /\ LET r == get_claude_analysis(resp)
           out == Analyze(variant, gpt4_result, r)
       IN  /\ claude_result' = r
           /\ claude_response' = resp.kind
           /\ result' = out.value
           /\ returnedVia' = out.via
    /\ inflight' = {}
    /\ combineRan' = TRUE
    /\ apc' = "done"
    /\ UNCHANGED <<variant, gpt4Calls, claudeCalls, gpt4_result, gpt4_response>>
    /\ UNCHANGED <<uiVars, authVars, codeVars>>

NextAnalysis ==
    \/ \E v \in Variants : StartRequest(v)
    \/ \E resp \in ProviderResponses : Gpt4Returns(resp)
    \/ \E resp \in ProviderResponses : ClaudeReturns(resp)

\* =====================================================================
\* Frontend: SymptomAnalyzer and the confidence helpers
\* =====================================================================

\* mockResult with the second and third diagnoses listed in the wrong order.
mockResult_misordered ==
    [sessionId |-> "session-123",
     differentialDiagnoses |->
        << [conditionName |-> "Acute Myocardial Infarction",
            confidenceScore |-> 87, differentialRank |-> 1],
           [conditionName |-> "Pulmonary Embolism",
            confidenceScore |-> 65, differentialRank |-> 2],
           [conditionName |-> "Unstable Angina",
            confidenceScore |-> 73, differentialRank |-> 3] >>,
     urgencyLevel |-> "emergency"]

\* mockResult with the confidence scores written as percentages (87 for 0.87).
mockResult_percent ==
    [sessionId |-> "session-123",
     differentialDiagnoses |->
        << [conditionName |-> "Acute Myocardial Infarction",
            confidenceScore |-> 87 * Unit, differentialRank |-> 1],
           [conditionName |-> "Unstable Angina",
            confidenceScore |-> 73 * Unit, differentialRank |-> 2],
           [conditionName |-> "Pulmonary Embolism",
            confidenceScore |-> 65 * Unit, differentialRank |-> 3] >>,
     urgencyLevel |-> "emergency"]

\* The result onSubmit sets (the fields the display and the claims read).
mockResult ==
    [sessionId |-> "session-123",
     differentialDiagnoses |->
        << [conditionName |-> "Acute Myocardial Infarction",
            confidenceScore |-> 87, differentialRank |-> 1],
           [conditionName |-> "Unstable Angina",
            confidenceScore |-> 73, differentialRank |-> 2],
           [conditionName |-> "Pulmonary Embolism",
            confidenceScore |-> 65, differentialRank |-> 3] >>,
     urgencyLevel |-> "emergency"]

\* getConfidenceColor with strict comparisons: a boundary score drops a band.
getConfidenceColor_strict(score) ==
    IF 10 * score > 8 * Unit THEN "diagnosis-confidence-high"
    ELSE IF 10 * score > 6 * Unit THEN "diagnosis-confidence-moderate"
    ELSE "diagnosis-confidence-low"

\* getConfidenceColor of the analyzer: score >= 0.8, score >= 0.6, else.
getConfidenceColor(score) ==
    IF 10 * score >= 8 * Unit THEN "diagnosis-confidence-high"
    ELSE IF 10 * score >= 6 * Unit THEN "diagnosis-confidence-moderate"
    ELSE "diagnosis-confidence-low"

\* getConfidenceLevel of the utilities: score >= 0.8, score >= 0.6, else.
getConfidenceLevel(score) ==
    IF 10 * score >= 8 * Unit THEN "high"
    ELSE IF 10 * score >= 6 * Unit THEN "moderate"
    ELSE "low"

\* The documented confidence levels: very_high 0.9-1.0, high 0.8-0.9,
\* moderate 0.6-0.8, low 0.0-0.6. The ranges share their end points, so a boundary
\* score has two documented levels.
DocumentedConfidenceLevels(score) ==
    (IF 10 * score >= 9 * Unit /\ score <= Unit THEN {"very_high"} ELSE {})
    \cup (IF 10 * score >= 8 * Unit /\ 10 * score <= 9 * Unit THEN {"high"} ELSE {})
    \cup (IF 10 * score >= 6 * Unit /\ 10 * score <= 8 * Unit THEN {"moderate"} ELSE {})
    \cup (IF score >= 0 /\ 10 * score <= 6 * Unit THEN {"low"} ELSE {})

\* The documented colour classes: high 80-100%, moderate 60-80%, low 0-60%, a
\* boundary score taken into the higher band.
DocumentedConfidenceColor(score) ==
    IF 100 * score >= 80 * Unit THEN "diagnosis-confidence-high"
    ELSE IF 100 * score >= 60 * Unit THEN "diagnosis-confidence-moderate"
    ELSE "diagnosis-confidence-low"

\* The colour class that carries a confidence level's name.
ColorOfLevel(level) ==
    IF level = "high" THEN "diagnosis-confidence-high"
    ELSE IF level = "moderate" THEN "diagnosis-confidence-moderate"
    ELSE IF level = "low" THEN "diagnosis-confidence-low"
    ELSE "none"

\* The urgency levels of an analysis result (AIAnalysisResponse.urgencyLevel).
UrgencyLevels == {"routine", "moderate", "urgent", "emergency"}

\* The values DiagnosisSession.urgencyLevel admits (the field is optional).
DiagnosisSessionUrgency == {"low", "moderate", "high", "emergency"}

InitUI ==
    /\ isAnalyzing = FALSE
    /\ analysisResult = None
    /\ simulations = 0
    /\ shown = None
    /\ session = [urgencyLevel |-> "undefined"]

\* onSubmit up to its await: setIsAnalyzing(true), then the simulated analysis starts.
\* The submit button is disabled while analysing and hidden while a result is shown.
OnSubmit ==
    /\ ~isAnalyzing
    /\ analysisResult = None
    /\ isAnalyzing' = TRUE
    /\ simulations' = 1
    /\ UNCHANGED <<analysisResult, shown, session>>
    /\ UNCHANGED <<analysisVars, authVars, codeVars>>

\* onSubmit after its await: the result is set, the completion callback runs (and
\* may throw, which the catch logs), and finally isAnalyzing is cleared.
OnSubmitResume(callbackThrows) ==
    /\ isAnalyzing
    /\ analysisResult' = mockResult
    /\ isAnalyzing' = FALSE
    /\ UNCHANGED <<simulations, shown, session>>
    /\ UNCHANGED <<analysisVars, authVars, codeVars>>

\* The "New Analysis" button of the result view.
NewAnalysis ==
    /\ analysisResult # None
    /\ analysisResult' = None
    /\ UNCHANGED <<isAnalyzing, simulations, shown, session>>
    /\ UNCHANGED <<analysisVars, authVars, codeVars>>

\* A diagnosis with confidence score s is displayed: its colour class, its level,
\* and whether confidence validation accepts the score.
DisplayConfidence(s) ==
    /\ shown' = [score |-> s,
                 color |-> getConfidenceColor(s),
                 level |-> getConfidenceLevel(s),
                 valid |-> validate_confidence_score(s)]
    /\ UNCHANGED <<isAnalyzing, analysisResult, simulations, session>>
    /\ UNCHANGED <<analysisVars, authVars, codeVars>>

\* A DiagnosisSession is stored with an urgency level its type admits.
StoreSession(u) ==
    /\ session' = [urgencyLevel |-> u]
    /\ UNCHANGED <<isAnalyzing, analysisResult, simulations, shown>>
    /\ UNCHANGED <<analysisVars, authVars, codeVars>>

NextUI ==
    \/ OnSubmit
    \/ \E callbackThrows \in BOOLEAN : OnSubmitResume(callbackThrows)
    \/ NewAnalysis
    \/ \E s \in 0..MaxScore : DisplayConfidence(s)
    \/ \E u \in DiagnosisSessionUrgency \cup {"undefined"} : StoreSession(u)

\* =====================================================================
\* Frontend: AuthContext, router and the pages rendering from it
\* =====================================================================

NoToken == "none"

\* The User object getCurrentUser resolves to.
CurrentUser == [kind |-> "user"]

\* DashboardPage without the loading check.
DashboardPage_no_spinner(l, u) ==
    IF u = None THEN "login_notice" ELSE "content"

\* DashboardPage: spinner while loading, the log-in notice without a user, else
\* the dashboard content.
DashboardPage(l, u) ==
    IF l THEN "spinner"
    ELSE IF u = None THEN "login_notice"
    ELSE "content"

\* HomePage: spinner until mounted and while loading, the welcome panel with a
\* user, else the public landing page.
HomePage(m, l, u) ==
    IF ~m THEN "spinner"
    ELSE IF l THEN "spinner"
    ELSE IF u # None THEN "welcome"
    ELSE "landing"

\* After construction: no user, loading, and whatever an earlier visit left in
\* localStorage (login stores both tokens, removal takes both, refreshToken stores
\* an access token alone).
InitAuth ==
    /\ user = None
    /\ loading = TRUE
    /\ \E stored \in {<<NoToken, NoToken>>, <<"stored", "stored">>, <<"stored", NoToken>>} :
            /\ access_token = stored[1]
            /\ refresh_token = stored[2]
    /\ route = "none"
    /\ initPc = "start"
    /\ loginPc = "idle"
    /\ refreshPc = "idle"
    /\ thrown = "none"
    /\ lastOp = "none"
    /\ pushed = "none"
    /\ loginSnapshot = None
    /\ mounted = FALSE
    /\ dashboardView = DashboardPage(TRUE, None)
    /\ homeView = HomePage(FALSE, TRUE, None)

\* Every state change re-renders the pages.
Render ==
    /\ dashboardView' = DashboardPage(loading', user')
    /\ homeView' = HomePage(mounted', loading', user')

\* HomePage's mount effect.
HomeMounted ==
    /\ ~mounted
    /\ mounted' = TRUE
    /\ UNCHANGED <<user, loading, access_token, refresh_token, route, initPc, loginPc,
                   refreshPc, thrown>>
    /\ lastOp' = "HomePage:mounted"
    /\ pushed' = "none"
    /\ UNCHANGED loginSnapshot
    /\ Render
    /\ UNCHANGED <<analysisVars, uiVars, codeVars>>

\* An initializeAuth that clears loading only after the awaited getCurrentUser.
InitializeAuth_no_finally ==
    /\ initPc = "start"
    /\ IF access_token # NoToken
       THEN initPc' = "await_me"
       ELSE initPc' = "done"
    /\ UNCHANGED <<user, loading, access_token, refresh_token, route, loginPc, refreshPc,
                   thrown, mounted>>
    /\ lastOp' = "initializeAuth"
    /\ pushed' = "none"
    /\ UNCHANGED loginSnapshot
    /\ Render
    /\ UNCHANGED <<analysisVars, uiVars, codeVars>>

\* initializeAuth up to its await: without a stored access token it goes straight
\* to the finally block.
InitializeAuth ==
    /\ initPc = "start"
    /\ IF access_token # NoToken
       THEN /\ initPc' = "await_me"
            /\ loading' = loading
       ELSE /\ initPc' = "done"
            /\ loading' = FALSE
    /\ UNCHANGED <<user, access_token, refresh_token, route, loginPc, refreshPc, thrown,
                   mounted>>
    /\ lastOp' = "initializeAuth"
    /\ pushed' = "none"
    /\ UNCHANGED loginSnapshot
    /\ Render
    /\ UNCHANGED <<analysisVars, uiVars, codeVars>>

\* initializeAuth: getCurrentUser resolved.
InitializeAuthUser ==
    /\ initPc = "await_me"
    /\ user' = CurrentUser
    /\ loading' = FALSE
    /\ initPc' = "done"
    /\ UNCHANGED <<access_token, refresh_token, route, loginPc, refreshPc, thrown, mounted>>
    /\ lastOp' = "initializeAuth:user"
    /\ pushed' = "none"
    /\ UNCHANGED loginSnapshot
    /\ Render
    /\ UNCHANGED <<analysisVars, uiVars, codeVars>>

\* initializeAuth: getCurrentUser rejected; the tokens are removed.
InitializeAuthInvalid ==
    /\ initPc = "await_me"
    /\ access_token' = NoToken
    /\ refresh_token' = NoToken
    /\ loading' = FALSE
    /\ initPc' = "done"
    /\ UNCHANGED <<user, route, loginPc, refreshPc, thrown, mounted>>
    /\ lastOp' = "initializeAuth:invalid"
    /\ pushed' = "none"
    /\ UNCHANGED loginSnapshot
    /\ Render
    /\ UNCHANGED <<analysisVars, uiVars, codeVars>>

\* login up to its first await.
Login ==
    /\ loginPc = "idle"
    /\ loading' = TRUE
    /\ loginPc' = "await_login"
    /\ thrown' = IF thrown = "login" THEN "none" ELSE thrown
    /\ UNCHANGED <<user, access_token, refresh_token, route, initPc, refreshPc, mounted>>
    /\ lastOp' = "login"
    /\ pushed' = "none"
    /\ loginSnapshot' = [access_token |-> access_token, refresh_token |-> refresh_token]
    /\ Render
    /\ UNCHANGED <<analysisVars, uiVars, codeVars>>

\* login: authApi.login resolved; both tokens are stored, getCurrentUser is called.
LoginTokens ==
    /\ loginPc = "await_login"
    /\ access_token' = "login"
    /\ refresh_token' = "login"
    /\ loginPc' = "await_me"
    /\ UNCHANGED <<user, loading, route, initPc, refreshPc, thrown, mounted>>
    /\ lastOp' = "login:tokens"
    /\ pushed' = "none"
    /\ UNCHANGED loginSnapshot
    /\ Render
    /\ UNCHANGED <<analysisVars, uiVars, codeVars>>

\* login: authApi.login rejected; the error is rethrown after the finally block.
LoginRejected ==
    /\ loginPc = "await_login"
    /\ loading' = FALSE
    /\ thrown' = "login"
    /\ loginPc' = "idle"
    /\ UNCHANGED <<user, access_token, refresh_token, route, initPc, refreshPc, mounted>>
    /\ lastOp' = "login:rejected"
    /\ pushed' = "none"
    /\ UNCHANGED loginSnapshot
    /\ Render
    /\ UNCHANGED <<analysisVars, uiVars, codeVars>>

\* login: getCurrentUser resolved; the user is set and /dashboard is pushed.
LoginUser ==
    /\ loginPc = "await_me"
    /\ user' = CurrentUser
    /\ route' = "/dashboard"
    /\ loading' = FALSE
    /\ loginPc' = "idle"
    /\ UNCHANGED <<access_token, refresh_token, initPc, refreshPc, thrown, mounted>>
    /\ lastOp' = "login:user"
    /\ pushed' = "/dashboard"
    /\ UNCHANGED loginSnapshot
    /\ Render
    /\ UNCHANGED <<analysisVars, uiVars, codeVars>>

\* A login that pushes /dashboard although getCurrentUser rejected.
LoginUserRejected_redirects ==
    /\ loginPc = "await_me"
    /\ loading' = FALSE
    /\ thrown' = "login"
    /\ loginPc' = "idle"
    /\ route' = "/dashboard"
    /\ UNCHANGED <<user, access_token, refresh_token, initPc, refreshPc, mounted>>
    /\ lastOp' = "login:user_rejected"
    /\ pushed' = "/dashboard"
    /\ UNCHANGED loginSnapshot
    /\ Render
    /\ UNCHANGED <<analysisVars, uiVars, codeVars>>

\* login: getCurrentUser rejected; the error is rethrown, the stored tokens stay.
LoginUserRejected ==
    /\ loginPc = "await_me"
    /\ loading' = FALSE
    /\ thrown' = "login"
    /\ loginPc' = "idle"
    /\ UNCHANGED <<user, access_token, refresh_token, route, initPc, refreshPc, mounted>>
    /\ lastOp' = "login:user_rejected"
    /\ pushed' = "none"
    /\ UNCHANGED loginSnapshot
    /\ Render
    /\ UNCHANGED <<analysisVars, uiVars, codeVars>>

\* A logout that removes the access token only.
LogoutEffects_keeps_refresh_token ==
    /\ access_token' = NoToken
    /\ UNCHANGED refresh_token
    /\ user' = None
    /\ route' = "/"
    /\ pushed' = "/"

\* What logout does to the token storage, the user and the router.
LogoutEffects ==
    /\ access_token' = NoToken
    /\ refresh_token' = NoToken
    /\ user' = None
    /\ route' = "/"
    /\ pushed' = "/"

\* logout: synchronous, callable in any state.
Logout ==
    /\ LogoutEffects
    /\ UNCHANGED <<loading, initPc, loginPc, refreshPc, thrown, mounted>>
    /\ lastOp' = "logout"
    /\ UNCHANGED loginSnapshot
    /\ Render
    /\ UNCHANGED <<analysisVars, uiVars, codeVars>>

\* refreshToken up to its await: without a stored refresh token it throws, the
\* catch logs the user out and rethrows; the refresh API is not called.
RefreshToken ==
    /\ refreshPc = "idle"
    /\ IF refresh_token = NoToken
       THEN /\ LogoutEffects
            /\ thrown' = "refreshToken"
            /\ refreshPc' = "idle"
            /\ lastOp' = "refreshToken:no_token"
       ELSE /\ refreshPc' = "await_refresh"
            /\ lastOp' = "refreshToken"
            /\ pushed' = "none"
            /\ thrown' = IF thrown = "refreshToken" THEN "none" ELSE thrown
            /\ UNCHANGED <<access_token, refresh_token, user, route>>
    /\ UNCHANGED <<loading, initPc, loginPc, mounted, loginSnapshot>>
    /\ Render
    /\ UNCHANGED <<analysisVars, uiVars, codeVars>>

\* refreshToken: the refresh API resolved; the new access token is stored.
RefreshTokenStored ==
    /\ refreshPc = "await_refresh"
    /\ access_token' = "refreshed"
    /\ refreshPc' = "idle"
    /\ UNCHANGED <<user, loading, refresh_token, route, initPc, loginPc, thrown, mounted>>
    /\ lastOp' = "refreshToken:stored"
    /\ pushed' = "none"
    /\ UNCHANGED loginSnapshot
    /\ Render
    /\ UNCHANGED <<analysisVars, uiVars, codeVars>>

\* A catch block that rethrows the refresh error without logging out.
RefreshTokenRejected_no_logout ==
    /\ refreshPc = "await_refresh"
    /\ thrown' = "refreshToken"
    /\ refreshPc' = "idle"
    /\ UNCHANGED <<access_token, refresh_token, user, route>>
    /\ UNCHANGED <<loading, initPc, loginPc, mounted>>
    /\ lastOp' = "refreshToken:rejected"
    /\ pushed' = "none"
    /\ UNCHANGED loginSnapshot
    /\ Render
    /\ UNCHANGED <<analysisVars, uiVars, codeVars>>

\* refreshToken: the refresh API rejected; logout, then rethrow.
RefreshTokenRejected ==
    /\ refreshPc = "await_refresh"
    /\ LogoutEffects
    /\ thrown' = "refreshToken"
    /\ refreshPc' = "idle"
    /\ UNCHANGED <<loading, initPc, loginPc, mounted>>
    /\ lastOp' = "refreshToken:rejected"
    /\ UNCHANGED loginSnapshot
    /\ Render
    /\ UNCHANGED <<analysisVars, uiVars, codeVars>>

NextAuth ==
    \/ HomeMounted
    \/ InitializeAuth
    \/ InitializeAuthUser
    \/ InitializeAuthInvalid
    \/ Login
    \/ LoginTokens
    \/ LoginRejected
    \/ LoginUser
    \/ LoginUserRejected
    \/ Logout
    \/ RefreshToken
    \/ RefreshTokenStored
    \/ RefreshTokenRejected

\* =====================================================================
\* Backend: ClinicalDataValidator, medical code validation
\* =====================================================================

UpperCaseLetters ==
    {"A", "B", "C", "D", "E", "F", "G", "H", "I", "J", "K", "L", "M",
     "N", "O", "P", "Q", "R", "S", "T", "U", "V", "W", "X", "Y", "Z"}

AsciiDigits == {"0", "1", "2", "3", "4", "5", "6", "7", "8", "9"}

\* A decimal digit outside ASCII (U+0663), written by name.
ArabicIndicDigitThree == "ARABIC-INDIC DIGIT THREE"

NewLine == "\n"

\* [A-Z] of the pattern.
MatchesUpper(ch) == ch \in UpperCaseLetters

\* \d of the pattern: on a str pattern it matches every Unicode decimal digit.
MatchesDigit(ch) == ch \in AsciiDigits \cup {ArabicIndicDigitThree}

\* $ of the pattern at position pos (the number of characters consumed): the end
\* of the string, or just before a newline that ends the string.
MatchesEnd(s, pos) ==
    \/ pos = Len(s)
    \/ (pos + 1 = Len(s) /\ s[Len(s)] = NewLine)

\* re.match(r'^[A-Z]\d{2,3}(\.\d{1,4})?$', s): a letter, n = 2 or 3 digits, then
\* either nothing (m = 0) or a dot and m = 1..4 digits, then $.
MatchesIcd10Pattern(s) ==
    \E n \in 2..3, m \in 0..4 :
        LET pos == 1 + n + (IF m = 0 THEN 0 ELSE 1 + m)
        IN  /\ Len(s) >= pos
            /\ MatchesUpper(s[1])
            /\ \A i \in 2..(1 + n) : MatchesDigit(s[i])
            /\ m > 0 => /\ s[n + 2] = "."
                        /\ \A i \in (n + 3)..(n + 2 + m) : MatchesDigit(s[i])
            /\ MatchesEnd(s, pos)

\* validate_medical_codes on one ICD-10 code: the errors appended for it.
validate_medical_codes(code) ==
    IF ~MatchesIcd10Pattern(code) THEN {"Invalid ICD-10 format"} ELSE {}

\* The valid format: one uppercase letter, two or three digits, optionally a dot
\* and one to four digits, and nothing else.
IsValidIcd10Format(s) ==
    \E n \in 2..3, m \in 0..4 :
        /\ Len(s) = 1 + n + (IF m = 0 THEN 0 ELSE 1 + m)
        /\ s[1] \in UpperCaseLetters
        /\ \A i \in 2..(1 + n) : s[i] \in AsciiDigits
        /\ m > 0 => /\ s[n + 2] = "."
                    /\ \A i \in (n + 3)..(n + 2 + m) : s[i] \in AsciiDigits

\* The characters candidate codes are enumerated over.
CodeAlphabet == {"I", "2", ".", NewLine}

\* Candidate codes: every string over the alphabet up to the length bound, and
\* the codes of the tests and the API documentation.
CodeInputs ==
    UNION {[1..n -> CodeAlphabet] : n \in 0..MaxCodeLen}
    \cup {<<"I", "2", "1", ".", "9">>,
          <<"I", "N", "V", "A", "L", "I", "D">>,
          <<"I", "1", "0">>,
          <<"i", "2", "1", ".", "9">>}

\* Validation of the code at hand.
ValidateCode ==
    /\ code_errors = None
    /\ code_errors' = [errors |-> validate_medical_codes(icd_code)]
    /\ UNCHANGED icd_code
    /\ UNCHANGED <<analysisVars, uiVars, authVars>>

NextCodes == ValidateCode

\* =====================================================================
\* Specifications
\* =====================================================================

\* No code has been handed to validation.
InitNoCode ==
    /\ icd_code = <<>>
    /\ code_errors = None

Init == InitAnalysis /\ InitUI /\ InitAuth /\ InitNoCode

\* Some candidate code is about to be validated (nothing else is going on).
InitCodes ==
    /\ InitAnalysis
    /\ InitUI
    /\ InitAuth
    /\ access_token = NoToken
    /\ icd_code \in CodeInputs
    /\ code_errors = None

Next == NextAnalysis \/ NextUI \/ NextAuth \/ NextCodes

\* The whole program.
Spec == Init /\ [][Next]_vars

\* A diagnosis request end to end: the analyzer's submit and the backend analysis.
NextDiagnosis ==
    \/ NextAnalysis
    \/ OnSubmit
    \/ \E callbackThrows \in BOOLEAN : OnSubmitResume(callbackThrows)
    \/ NewAnalysis

SpecDiagnosis == Init /\ [][NextDiagnosis]_vars

\* The SymptomAnalyzer component and the display helpers.
SpecUI == Init /\ [][NextUI]_vars

\* The AuthContext and the pages.
SpecAuth == Init /\ [][NextAuth]_vars

\* Medical code validation over the candidate codes.
SpecCodes == InitCodes /\ [][NextCodes]_vars

\* The authentication context with its scheduling: the mount effect runs
\* initializeAuth, and an awaited getCurrentUser settles.
SpecAuthLive ==
    /\ Init
    /\ [][NextAuth]_vars
    /\ WF_vars(InitializeAuth)
    /\ WF_vars(InitializeAuthUser \/ InitializeAuthInvalid)

\* =====================================================================
\* Properties
\* =====================================================================

BothParseable == gpt4_response = "json" /\ claude_response = "json"

\* The conditions at least one provider listed (both analyses present).
ListedConditions == (DOMAIN gpt4_result.scores) \cup (DOMAIN claude_result.scores)

\* r lists exactly the union of the two providers' conditions, a condition both
\* list with the average of its two scores and any other with its own score.
IsUnionWithAverages(r) ==
    LET d == r.differential_diagnoses
        gs == gpt4_result.scores
        cs == claude_result.scores
    IN  /\ {d[i].condition_name : i \in 1..Len(d)} = ListedConditions
        /\ Len(d) = Cardinality(ListedConditions)
        /\ \A i \in 1..Len(d) :
            LET n == d[i].condition_name
            IN  d[i].confidence_score =
                    IF n \in DOMAIN gs /\ n \in DOMAIN cs THEN (gs[n] + cs[n]) \div 2
                    ELSE IF n \in DOMAIN gs THEN gs[n]
                    ELSE cs[n]

\* C1 as stated: a finished request returned the merged result if and only if both
\* providers returned parseable JSON, and the static fallback in every other case.
C1_MergedIffBothParseable ==
    apc = "done" =>
        /\ (returnedVia = "combined") <=> BothParseable
        /\ returnedVia # "combined" => result = get_fallback_analysis

\* C1 amended: a finished request returned the merged result (the union of the two
\* providers' diagnoses with averaged confidence scores) if and only if both
\* providers returned parseable JSON and the merged list of diagnoses is not empty;
\* in every other case it returned the static fallback.
C1_MergedIffParseableAndNonEmpty ==
    apc = "done" =>
        /\ (returnedVia = "combined") <=> (BothParseable /\ ListedConditions # {})
        /\ returnedVia = "combined" => IsUnionWithAverages(result)
        /\ returnedVia # "combined" =>
                returnedVia = "fallback" /\ result = get_fallback_analysis

\* C1 witness: a merged result in which a condition listed by both providers with
\* different scores carries their average.
C1_Witness ==
    /\ apc = "done"
    /\ returnedVia = "combined"
    /\ \E n \in (DOMAIN gpt4_result.scores) \cap (DOMAIN claude_result.scores) :
            gpt4_result.scores[n] # claude_result.scores[n]

RankedByScore(scores, ranks) ==
    /\ Len(scores) = Len(ranks)
    /\ \A i \in 1..Len(ranks) : ranks[i] = i
    /\ \A i, j \in 1..Len(scores) : ranks[i] < ranks[j] => scores[i] >= scores[j]

\* C3: the differential diagnoses of every analysis result (returned by the backend
\* or set by the analyzer) are ordered by confidence score descending, and
\* differentialRank is the 1-based position in that order.
C3_RankedByConfidence ==
    /\ apc = "done" =>
        LET d == result.differential_diagnoses
        IN  RankedByScore([i \in 1..Len(d) |-> d[i].confidence_score],
                          [i \in 1..Len(d) |-> d[i].differential_rank])
    /\ analysisResult # None =>
        LET d == analysisResult.differentialDiagnoses
        IN  RankedByScore([i \in 1..Len(d) |-> d[i].confidenceScore],
                          [i \in 1..Len(d) |-> d[i].differentialRank])

\* C3 witness: a merged result of three diagnoses with distinct scores whose order
\* differs from the order of the condition list, next to a result set by onSubmit.
C3_Witness ==
    /\ apc = "done"
    /\ returnedVia = "combined"
    /\ Len(result.differential_diagnoses) = 3
    /\ result.differential_diagnoses[1].condition_name = ConditionList[3]
    /\ result.differential_diagnoses[1].confidence_score
            > result.differential_diagnoses[2].confidence_score
    /\ result.differential_diagnoses[2].confidence_score
            > result.differential_diagnoses[3].confidence_score
    /\ analysisResult # None

C5_ConcurrentCalls ==
    /\ "gpt4" \in inflight => claudeCalls = 1
    /\ apc = "done" => (gpt4Calls = 1 /\ claudeCalls = 1)
    /\ combineRan => inflight = {}

C7_UrgencyLevels ==
    /\ analysisResult # None => analysisResult.urgencyLevel \in UrgencyLevels
    /\ session.urgencyLevel \in UrgencyLevels \cup {"undefined"}

\* C8: the dashboard content is rendered only when loading is false and a user is
\* set; while loading the spinner is rendered, and without a user the log-in
\* notice; the home page greets a user only under the same condition.
C8_ProtectedContent ==
    /\ dashboardView = "content" => (~loading /\ user # None)
    /\ loading => dashboardView = "spinner"
    /\ (~loading /\ user = None) => dashboardView = "login_notice"
    /\ homeView = "welcome" => (mounted /\ ~loading /\ user # None)

\* C8 witness: the dashboard content shown to a user who logged in and whose access
\* token was refreshed afterwards.
C8_Witness ==
    /\ dashboardView = "content"
    /\ ~loading
    /\ user = CurrentUser
    /\ route = "/dashboard"
    /\ access_token = "refreshed"
    /\ initPc = "done"

\* C9 as stated: getConfidenceLevel returns the documented level (very_high, high,
\* moderate or low) of every score in [0, 1].
C9_DocumentedLevel ==
    (shown # None /\ shown.score <= Unit) =>
        shown.level \in DocumentedConfidenceLevels(shown.score)

\* C10: the colour class of a score in [0, 1] is the documented one (high from 0.8,
\* moderate from 0.6, low below, a boundary score in the higher band), and for
\* every score the class chosen by getConfidenceColor is the one named after the
\* level getConfidenceLevel returns.
C10_ColorMatchesLevel ==
    shown # None =>
        /\ shown.score <= Unit => shown.color = DocumentedConfidenceColor(shown.score)
        /\ shown.color = ColorOfLevel(shown.level)

\* C10 witness: the boundary score 0.8 displayed in the high band.
C10_Witness ==
    /\ shown # None
    /\ 10 * shown.score = 8 * Unit
    /\ shown.color = "diagnosis-confidence-high"
    /\ shown.level = "high"

\* C11 as stated: validation accepts exactly the codes in the valid format and
\* reports an error for every other string; "I21.9" is accepted and "INVALID" is
\* rejected.
C11_AcceptsExactlyValidFormat ==
    code_errors # None =>
        /\ (code_errors.errors = {}) <=> IsValidIcd10Format(icd_code)
        /\ icd_code = <<"I", "2", "1", ".", "9">> => code_errors.errors = {}
        /\ icd_code = <<"I", "N", "V", "A", "L", "I", "D">> => code_errors.errors # {}

\* C12: right after logout, in whatever state it was called, no access token and
\* no refresh token is stored, the user is null and '/' was pushed on the router;
\* logout can run in every state (it has no failing path).
C12_LogoutPostcondition ==
    /\ lastOp = "logout" =>
          /\ access_token = NoToken
          /\ refresh_token = NoToken
          /\ user = None
          /\ pushed = "/"
          /\ route = "/"
    /\ ENABLED Logout

\* C12 witness: logout ran while login was awaiting getCurrentUser with its
\* tokens stored; the tokens are gone.
C12_Witness ==
    /\ lastOp = "logout"
    /\ loginPc = "await_me"
    /\ loginSnapshot # None
    /\ access_token = NoToken
    /\ refresh_token = NoToken
    /\ user = None
    /\ route = "/"

\* The steps in which a refreshToken call fails.
RefreshFailures == {"refreshToken:no_token", "refreshToken:rejected"}

\* C13: right after refreshToken fails, either for want of a stored refresh token
\* or because the refresh API rejected, both tokens are removed, the user is null
\* and the error is rethrown; the refresh API is called only with a refresh token
\* stored, and a call made without one fails at once.
C13_RefreshFailureLogsOut ==
    /\ [](lastOp \in RefreshFailures =>
             /\ access_token = NoToken
             /\ refresh_token = NoToken
             /\ user = None
             /\ thrown = "refreshToken")
    /\ [][/\ (refreshPc = "idle" /\ refreshPc' = "await_refresh") =>
                refresh_token # NoToken
          /\ (lastOp' = "refreshToken:no_token") =>
                (refresh_token = NoToken /\ refreshPc' = "idle")
          /\ (refreshPc = "await_refresh" /\ refreshPc' = "idle") =>
                lastOp' \in {"refreshToken:stored", "refreshToken:rejected"}]_vars

\* C13 witness: after a login, the refresh API rejected and the session is gone.
C13_Witness ==
    /\ lastOp = "refreshToken:rejected"
    /\ loginSnapshot # None
    /\ loginPc = "idle"
    /\ access_token = NoToken
    /\ refresh_token = NoToken
    /\ user = None
    /\ thrown = "refreshToken"

\* C14 as stated: in every reachable state, those reached by a logout that runs
\* while initializeAuth or login awaits getCurrentUser included, the user is
\* non-null only if an access token is stored.
C14_UserOnlyWithToken ==
    user # None => access_token # NoToken

\* The steps in which a login call fails.
LoginFailures == {"login:rejected", "login:user_rejected"}

\* C15 as stated: right after a login that failed, at the login call or at the
\* getCurrentUser that follows it, no token of that attempt is stored: a stored
\* token that login wrote was already stored when login was called.
C15_FailedLoginLeavesNoTokens ==
    lastOp \in LoginFailures =>
        /\ access_token = "login" => loginSnapshot.access_token = "login"
        /\ refresh_token = "login" => loginSnapshot.refresh_token = "login"

\* C16: /dashboard is pushed by exactly the step in which login succeeds, the one
\* that sets the user from getCurrentUser; getCurrentUser is called only by the
\* step that has stored both tokens, and login succeeds only out of that await;
\* a step in which login fails pushes nothing, leaves the user and the route as
\* they were and rethrows the error.
C16_LoginRedirectsIffSucceeded ==
    /\ [](pushed = "/dashboard" <=> lastOp = "login:user")
    /\ [](lastOp = "login:user" => (user = CurrentUser /\ route = "/dashboard"))
    /\ [][/\ (loginPc # "await_me" /\ loginPc' = "await_me") =>
                /\ loginPc = "await_login"
                /\ access_token' = "login"
                /\ refresh_token' = "login"
          /\ (lastOp' = "login:user") => loginPc = "await_me"
          /\ (lastOp' \in LoginFailures) =>
                /\ loginPc \in {"await_login", "await_me"}
                /\ pushed' = "none"
                /\ route' = route
                /\ user' = user
                /\ thrown' = "login"]_vars

\* C16 witness: a login succeeded; its tokens are stored, the user is set, no
\* error is pending and /dashboard was pushed.
C16_Witness ==
    /\ lastOp = "login:user"
    /\ pushed = "/dashboard"
    /\ route = "/dashboard"
    /\ user = CurrentUser
    /\ access_token = "login"
    /\ refresh_token = "login"
    /\ thrown = "none"
    /\ ~loading

\* The steps of initializeAuth.
InitializeAuthSteps == {"initializeAuth", "initializeAuth:user", "initializeAuth:invalid"}

\* C17: initializeAuth calls getCurrentUser only when an access token is stored;
\* the step in which that call rejects removes both tokens and leaves the user as
\* it was, null unless a login was made meanwhile; initializeAuth ends with
\* loading false, and it does end.
C17_InitializeAuth ==
    /\ [][/\ (initPc # "await_me" /\ initPc' = "await_me") =>
                (initPc = "start" /\ access_token # NoToken)
          /\ (lastOp' = "initializeAuth:invalid") =>
                /\ initPc = "await_me"
                /\ access_token' = NoToken
                /\ refresh_token' = NoToken
                /\ user' = user
                /\ loginSnapshot = None => user' = None
          /\ (initPc # "done" /\ initPc' = "done") => ~loading']_vars
    /\ <>(initPc = "done" /\ lastOp \in InitializeAuthSteps /\ ~loading)

\* C17 witness: the stored token was rejected by getCurrentUser; both tokens are
\* removed, the user is null and loading is false.
C17_Witness ==
    /\ lastOp = "initializeAuth:invalid"
    /\ initPc = "done"
    /\ access_token = NoToken
    /\ refresh_token = NoToken
    /\ user = None
    /\ ~loading

====
